---- MODULE Spec2Model ----
(***************************************************************************)
(* A model of the order-book ingest pipeline:                              *)
(*   - OrderBookHandler (orderbook.py): snapshot / delta application and   *)
(*     row emission under the handler's lock,                              *)
(*   - ParquetWriter (parquet.py): bounded queue, background writer loop,  *)
(*     shutdown,                                                           *)
(*   - main (main.py) with WebSocketOrderBook (ws.py): the per-asset       *)
(*     session loop.                                                       *)
(* Each part has its own specification over the shared variable tuple:     *)
(* SpecBook, SpecWriter and SpecOrch.                                      *)
(***************************************************************************)
EXTENDS Integers, Sequences, FiniteSets, TLC

VARIABLES
    \* ---- OrderBookHandler -------------------------------------------
    book,        \* self.current_orderbook: NoBook or [bids, asks]
    lock,        \* holder of the handler's threading.Lock
    hpc,         \* position of the message-processing thread
    msg,         \* the message being processed
    nleft,       \* changes of the price_change message still to iterate
    rows,        \* rows built by enqueue_orderbook, not yet enqueued
    hwriter,     \* self.parquet_writer (0 is None, else a writer id)
    sink,        \* rows enqueued for the current message, with their writer
    wclosed,     \* writers that switch_writer has shut down
    nApplied,    \* changes of the current message that modified the book
    torn,        \* the book holds part of a message that was aborted midway
    lastOp,      \* what the latest iteration of the change loop did
    rpc,         \* position of a best-bid/best-ask reader
    book0,       \* the book as the price_change loop in progress found it
    rres,        \* what the reader's bb and ba gave
    \* ---- ParquetWriter ------------------------------------------------
    wrunning,    \* self.running
    queue,       \* self.queue
    wopen,       \* self._writer: "unopened", "open" or "closed"
    footers,     \* how many times the file's footer has been written
    committed,   \* the rows written to the file, in order
    buffer,      \* _writer_loop's local batch
    since,       \* time since last_flush, saturating at FlushInterval
    wpc,         \* position of the writer thread
    failed,      \* a commit has failed (the writer thread died of it)
    ppc,         \* position of the producer inside enqueue
    prow,        \* the row the producer is enqueueing
    nextRow,     \* the next row the producer will bring
    enq,         \* the rows put into the queue, in the order of their put
    evicted,     \* the rows enqueue has dropped from the head of the queue
    pres,        \* how the producer's latest enqueue call ended
    spc,         \* position of the caller of shutdown
    stimeout,    \* whether that call passed a timeout
    shutCalls,   \* shutdown calls so far (counted up to 2)
    \* ---- main and WebSocketOrderBook ------------------------------------
    clock,          \* the wall clock, in half seconds
    now,            \* main's `now`: the clock as read at line 25
    opc,            \* position of main: "loop", "finally", "done" or "raised"
    exc,            \* the exception that ended the loop ("none": none)
    ai,             \* index in ASSETS of the asset the for loop is at
    asset_events,   \* cached discovery result per asset
    last_refresh,   \* time of the last refresh per asset (-1: none yet)
    current_events, \* current event per asset (NoEvent is None)
    wsconnections,  \* connection per asset (0: the asset is not a key)
    conns,          \* every WebSocketOrderBook created so far
    fin,            \* the assets the finally block has still to shut down
    \* ---- ParquetWriter instances and their files ---------------------------
    pws,            \* the ParquetWriter instances constructed so far
    openres,        \* how the latest _open_writer call ended
    \* ---- WebSocketOrderBook.shutdown on the writer's connection -----------
    crunning,       \* the connection's self.running
    cpc,            \* position of the caller inside shutdown
    sockclosed,     \* self.ws.close() has returned
    ccalls,         \* shutdown calls made on the connection
    cres,           \* how the latest shutdown call ended
    fileAt,         \* the file as it was when shutdown first returned
    \* ---- WebSocketOrderBook: run, callbacks and keepalive ----------------
    lpc,            \* position of the thread inside run (ws.run_forever)
    pingpc,         \* position of the keepalive thread (ping)
    cerr            \* which handler logged the latest connection error

bookVars == <<book, lock, hpc, msg, nleft, rows, hwriter, sink, wclosed,
              nApplied, torn, lastOp, rpc, book0, rres>>

writerVars == <<wrunning, queue, wopen, footers, committed, buffer, since, wpc,
                failed, ppc, prow, nextRow, enq, evicted, pres, spc, stimeout,
                shutCalls>>

orchVars == <<clock, now, opc, exc, ai, asset_events, last_refresh,
              current_events, wsconnections, conns, fin>>

fileVars == <<pws, openres>>

connVars == <<crunning, cpc, sockclosed, ccalls, cres, fileAt>>

feedVars == <<lpc, pingpc, cerr>>

vars == <<bookVars, writerVars, orchVars, fileVars, connVars, feedVars>>

nonBookVars == <<writerVars, orchVars, fileVars, connVars, feedVars>>
nonWriterVars == <<bookVars, orchVars, fileVars, connVars, feedVars>>
nonOrchVars == <<bookVars, writerVars, fileVars, connVars, feedVars>>
nonFileVars == <<bookVars, writerVars, orchVars, connVars, feedVars>>
nonConnVars == <<bookVars, writerVars, orchVars, fileVars, feedVars>>
nonFeedVars == <<bookVars, writerVars, orchVars, fileVars>>

-----------------------------------------------------------------------------
(* Bounds of the model *)

MaxSnapLevels == 2
MaxChanges == 2
MaxRows == 3
\* the writer's parameters (queue_maxsize, batch_size, flush_interval in
\* clock ticks), scaled down
QueueMax == 2
BatchSize == 2
FlushInterval == 2
\* the last clock value, in half seconds
MaxTime == 10
MaxConns == 3
MaxInstances == 2
MaxShutdowns == 2
\* REFRESH_INTERVAL in half seconds, scaled down
RefreshInterval == 4

-----------------------------------------------------------------------------
(* Decimal strings of the feed and Python's float() / str() on them.       *)
(* A float is represented by the integer 100 * value.                      *)

\* the writers a handler can be given: the one it is built with, and one for
\* switch_writer
WriterIds == {1, 2}

Missing == "<missing>"
TOKEN == "tok"

SnapPriceStrs == {"0.50", "0.6"}
SnapSizeStrs == {"7"}
DeltaPriceStrs == {"0.5", "0.6", "x"}
DeltaSizeStrs == {"0", "9"}

FloatOf(s) ==
    CASE s = "0.5"  -> 50
      [] s = "0.50" -> 50
      [] s = "0.6"  -> 60
      [] s = "0"    -> 0
      [] s = "0.0"  -> 0
      [] s = "7"    -> 700
      [] s = "7.0"  -> 700
      [] s = "9"    -> 900
      [] s = "9.0"  -> 900
      [] s = "-1"   -> -100
      [] s = "-1.0" -> -100

IsNumeric(s) ==
    s \in {"0.5", "0.50", "0.6", "0", "0.0", "7", "7.0", "9", "9.0", "-1", "-1.0"}

StrOf(x) ==
    CASE x = 50  -> "0.5"
      [] x = 60  -> "0.6"
      [] x = 0   -> "0.0"
      [] x = 700 -> "7.0"
      [] x = 900 -> "9.0"
      [] x = -100 -> "-1.0"

Lower(s) ==
    CASE s = "BUY"  -> "buy"
      [] s = "SELL" -> "sell"
      [] OTHER      -> s

-----------------------------------------------------------------------------
(* Inputs *)

NoBook == [none |-> TRUE]
NoMsg == [kind |-> "none"]

SeqsUpTo(S, n) == UNION {[1..k -> S] : k \in 0..n}

SnapLevels == [price : SnapPriceStrs, size : SnapSizeStrs]

\* Full-book frames: every choice of levels on both sides, and one
\* representative of a frame that carries a level of size 0.
Snapshots ==
    [kind : {"book"}, asset_id : {TOKEN, "other"},
     bids : SeqsUpTo(SnapLevels, MaxSnapLevels),
     asks : SeqsUpTo(SnapLevels, MaxSnapLevels)]
    \cup {[kind |-> "book", asset_id |-> TOKEN,
           bids |-> <<[price |-> "0.6", size |-> "0"]>>, asks |-> <<>>]}

\* Changes of a price_change frame: every buy / sell change of the subscribed
\* key, and one representative each of a change for another key, a change
\* with an unknown side, a change without a "side" field, and a change with
\* a negative size.
Changes ==
    [asset_id : {TOKEN}, side : {"BUY", "sell"},
     price : DeltaPriceStrs, size : DeltaSizeStrs]
    \cup {[asset_id |-> "other", side |-> "BUY", price |-> "0.5", size |-> "9"],
          [asset_id |-> TOKEN, side |-> "hold", price |-> "0.5", size |-> "9"],
          [asset_id |-> TOKEN, side |-> Missing, price |-> "0.5", size |-> "9"],
          [asset_id |-> TOKEN, side |-> "sell", price |-> "0.6", size |-> "-1"]}

-----------------------------------------------------------------------------
(* OrderBookHandler: pure helpers *)

UniqueSide(side) ==
    \A i, j \in DOMAIN side :
        i # j => FloatOf(side[i].price) # FloatOf(side[j].price)

HasPrice(side, price) == \E i \in DOMAIN side : FloatOf(side[i].price) = price

FirstAt(side, price) ==
    CHOOSE i \in DOMAIN side :
        /\ FloatOf(side[i].price) = price
        /\ \A j \in DOMAIN side : FloatOf(side[j].price) = price => i <= j

\* update_price_level comparing the stored price text instead of its float
UpdateByString(order_side, price, size) ==
    LET Keep(l) == l.price # StrOf(price)
        Hit(i) == order_side[i].price = StrOf(price)
    IN  IF size = 0
        THEN SelectSeq(order_side, Keep)
        ELSE IF \E i \in DOMAIN order_side : Hit(i)
             THEN LET k == CHOOSE i \in DOMAIN order_side :
                               Hit(i) /\ \A j \in DOMAIN order_side : Hit(j) => i <= j
                  IN  [order_side EXCEPT ![k].size = StrOf(size)]
             ELSE Append(order_side, [price |-> StrOf(price), size |-> StrOf(size)])

\* update_price_level without the size = 0 branch
UpdateNoRemoval(order_side, price, size) ==
    IF HasPrice(order_side, price)
    THEN [order_side EXCEPT ![FirstAt(order_side, price)].size = StrOf(size)]
    ELSE Append(order_side, [price |-> StrOf(price), size |-> StrOf(size)])

UpdatePriceLevel(order_side, price, size) ==
    LET Keep(l) == FloatOf(l.price) # price
    IN  IF size = 0
        THEN SelectSeq(order_side, Keep)
        ELSE IF HasPrice(order_side, price)
             THEN [order_side EXCEPT ![FirstAt(order_side, price)].size = StrOf(size)]
             ELSE Append(order_side, [price |-> StrOf(price), size |-> StrOf(size)])

\* sorted(levels, key=float(price)): a stable insertion sort; Before(a, b)
\* says that key a must come strictly before key b.
RECURSIVE InsertSorted(_, _, _)
InsertSorted(l, s, desc) ==
    IF s = <<>> THEN <<l>>
    ELSE LET a == FloatOf(l.price)
             b == FloatOf(Head(s).price)
         IN  IF (IF desc THEN a > b ELSE a < b)
             THEN <<l>> \o s
             ELSE <<Head(s)>> \o InsertSorted(l, Tail(s), desc)

RECURSIVE Sorted(_, _)
Sorted(s, desc) ==
    IF s = <<>> THEN <<>>
    ELSE InsertSorted(s[Len(s)], Sorted(SubSeq(s, 1, Len(s) - 1), desc), desc)

RowOf(tag, l) == [side |-> tag, price |-> FloatOf(l.price), size |-> FloatOf(l.size)]

OrderbookRows(b) ==
    LET sb == Sorted(b.bids, TRUE)
        sa == Sorted(b.asks, FALSE)
    IN  [i \in 1..Len(sb) |-> RowOf("bid", sb[i])]
        \o [i \in 1..Len(sa) |-> RowOf("ask", sa[i])]

\* Python's order on the price texts a book can hold ("0.5" < "0.50" < "0.6"):
\* bb and ba compare x["price"], which is a str
StrRank(s) ==
    CASE s = "0.5"  -> 1
      [] s = "0.50" -> 2
      [] s = "0.6"  -> 3

NoRead == [none |-> TRUE]
ValueError == "ValueError"

\* OB.bb: max(self.bids, key=lambda x: x["price"])["price"]; max raises
\* ValueError on an empty list and returns the first of equal maxima
BestBid(bids) ==
    IF bids = <<>> THEN ValueError
    ELSE LET Top(i) == \A j \in DOMAIN bids : StrRank(bids[j].price) <= StrRank(bids[i].price)
             k == CHOOSE i \in DOMAIN bids : Top(i) /\ \A j \in DOMAIN bids : Top(j) => i <= j
         IN  bids[k].price

\* OB.ba: min(self.asks, key=lambda x: x["price"])["price"]
BestAsk(asks) ==
    IF asks = <<>> THEN ValueError
    ELSE LET Low(i) == \A j \in DOMAIN asks : StrRank(asks[i].price) <= StrRank(asks[j].price)
             k == CHOOSE i \in DOMAIN asks : Low(i) /\ \A j \in DOMAIN asks : Low(j) => i <= j
         IN  asks[k].price

-----------------------------------------------------------------------------
(* OrderBookHandler: the message-processing thread.                         *)
(*   hpc = "idle"        waiting in on_message for the next frame           *)
(*         "fb_wait"     process_full_book_message, before `with self.lock` *)
(*         "fb_locked"   inside the lock, before the assignment             *)
(*         "fb_unlocked" after the `with` block, before line 66             *)
(*         "pc_wait"     process_price_change_message, before the lock      *)
(*         "pc_loop"     inside the lock, iterating price_changes           *)
(*         "emit"        in enqueue_orderbook's `for row in rows` loop      *)
(* The content of a frame is drawn where the code first reads it: the      *)
(* asset_id at line 54, bids and asks at lines 61-62, each change at its   *)
(* iteration of the loop at line 82.                                       *)

BookInit ==
    /\ book = NoBook
    /\ lock = "free"
    /\ hpc = "idle"
    /\ msg = NoMsg
    /\ nleft = 0
    /\ rows = <<>>
    /\ hwriter = 1
    /\ sink = <<>>
    /\ wclosed = {}
    /\ nApplied = 0
    /\ torn = FALSE
    /\ lastOp = "none"
    /\ rpc = "idle"
    /\ book0 = NoBook
    /\ rres = NoRead

\* process_message dispatching a full-book frame (list form or event_type
\* "book") whose asset_id is not the subscribed key: line 54 fails.
FullBookIgnored ==
    /\ hpc = "idle"
    /\ msg' = [kind |-> "book", asset_id |-> "other"]
    /\ sink' = <<>>
    /\ UNCHANGED <<book0, book, lock, hpc, nleft, rows, hwriter, wclosed, nApplied,
                   torn, lastOp, rpc, rres>>
    /\ UNCHANGED nonBookVars

\* process_message dispatching a full-book frame with the subscribed key
FullBookReceive ==
    /\ hpc = "idle"
    /\ msg' = [kind |-> "book", asset_id |-> TOKEN]
    /\ hpc' = "fb_wait"
    /\ sink' = <<>>
    /\ UNCHANGED <<book0, book, lock, nleft, rows, hwriter, wclosed, nApplied, torn,
                   lastOp, rpc, rres>>
    /\ UNCHANGED nonBookVars

FullBookLock ==
    /\ hpc = "fb_wait"
    /\ lock = "free"
    /\ lock' = "handler"
    /\ hpc' = "fb_locked"
    /\ UNCHANGED <<book0, book, msg, nleft, rows, hwriter, sink, wclosed, nApplied,
                   torn, lastOp, rpc, rres>>
    /\ UNCHANGED nonBookVars

\* a snapshot merged into the bid side instead of replacing it
MergeBook(old, m) ==
    IF old = NoBook
    THEN [bids |-> m.bids, asks |-> m.asks]
    ELSE [bids |-> old.bids \o m.bids, asks |-> m.asks]

ReplaceBook(old, m) == [bids |-> m.bids, asks |-> m.asks]

\* lines 56-63 and the end of the `with` block
FullBookAssign ==
    /\ hpc = "fb_locked"
    /\ \E m \in Snapshots :
        /\ m.asset_id = TOKEN
        /\ msg' = m
        /\ book' = ReplaceBook(book, m)
    /\ lock' = "free"
    /\ hpc' = "fb_unlocked"
    /\ torn' = FALSE
    /\ UNCHANGED <<book0, nleft, rows, hwriter, sink, wclosed, nApplied, lastOp, rpc, rres>>
    /\ UNCHANGED nonBookVars

\* lines 66-67 and 103-104 with enqueue_orderbook up to line 168: the rows
\* are built from the book as it is now, under whatever lock the caller
\* holds.
BuildRows ==
    IF hwriter = 0
    THEN rows' = <<>>
    ELSE rows' = OrderbookRows(book)

FullBookEnqueue ==
    /\ hpc = "fb_unlocked"
    /\ BuildRows
    /\ hpc' = "emit"
    /\ UNCHANGED <<book0, book, lock, msg, nleft, hwriter, sink, wclosed, nApplied,
                   torn, lastOp, rpc, rres>>
    /\ UNCHANGED nonBookVars

\* process_message dispatching a price_change frame: lines 72-79
PriceChangeReceive ==
    /\ hpc = "idle"
    /\ \E n \in 0..MaxChanges :
        /\ msg' = [kind |-> "price_change", n |-> n]
        /\ nleft' = n
    /\ hpc' = "pc_wait"
    /\ sink' = <<>>
    /\ UNCHANGED <<book0, book, lock, rows, hwriter, wclosed, nApplied, torn,
                   lastOp, rpc, rres>>
    /\ UNCHANGED nonBookVars

PriceChangeLock ==
    /\ hpc = "pc_wait"
    /\ lock = "free"
    /\ lock' = "handler"
    /\ hpc' = "pc_loop"
    /\ book0' = book
    /\ UNCHANGED <<book, msg, nleft, rows, hwriter, sink, wclosed, nApplied,
                   torn, lastOp, rpc, rres>>
    /\ UNCHANGED nonBookVars

\* What lines 83-93 do with one change: "skip" (other asset, or a side that
\* is neither buy nor sell), "raise" (missing side, non-numeric number, or
\* no book yet), or "apply".
ChangeOutcome(c) ==
    IF c.asset_id # TOKEN THEN "skip"
    ELSE IF c.side = Missing THEN "raise"
    ELSE IF ~IsNumeric(c.price) \/ ~IsNumeric(c.size) THEN "raise"
    ELSE IF Lower(c.side) \notin {"buy", "sell"} THEN "skip"
    ELSE IF book = NoBook THEN "raise"
    ELSE "apply"

ApplyChange(b, c) ==
    IF Lower(c.side) = "buy"
    THEN [b EXCEPT !.bids = UpdatePriceLevel(b.bids, FloatOf(c.price), FloatOf(c.size))]
    ELSE [b EXCEPT !.asks = UpdatePriceLevel(b.asks, FloatOf(c.price), FloatOf(c.size))]

SideOf(b, c) == IF Lower(c.side) = "buy" THEN b.bids ELSE b.asks

OpLabel(c) ==
    IF FloatOf(c.size) = 0
    THEN IF HasPrice(SideOf(book, c), FloatOf(c.price)) THEN "remove" ELSE "remove_absent"
    ELSE IF HasPrice(SideOf(book, c), FloatOf(c.price)) THEN "overwrite" ELSE "insert"

\* one iteration of the loop at line 82, for change c
PriceChangeStepWith(c) ==
    /\ hpc = "pc_loop"
    /\ nleft > 0
    /\ LET o == ChangeOutcome(c) IN
        \/ /\ o = "skip"
           /\ nleft' = nleft - 1
           /\ lastOp' = "skip"
           /\ UNCHANGED <<book, lock, hpc, nApplied, torn, book0>>
        \/ /\ o = "apply"
           /\ book' = ApplyChange(book, c)
           /\ nleft' = nleft - 1
           /\ nApplied' = IF book' # book THEN nApplied + 1 ELSE nApplied
           /\ lastOp' = OpLabel(c)
           /\ UNCHANGED <<lock, hpc, torn, book0>>
        \/ /\ o = "raise"
           \* the exception leaves the `with` block and is caught at line 47
           /\ lock' = "free"
           /\ hpc' = "idle"
           /\ nleft' = 0
           /\ torn' = (torn \/ nApplied > 0)
           /\ nApplied' = 0
           /\ lastOp' = "none"
           /\ book0' = NoBook
           /\ UNCHANGED book
    /\ UNCHANGED <<msg, rows, hwriter, sink, wclosed, rpc, rres>>
    /\ UNCHANGED nonBookVars

PriceChangeStep == \E c \in Changes : PriceChangeStepWith(c)

\* lines 96-104 once the loop is over
PriceChangeEnqueue ==
    /\ hpc = "pc_loop"
    /\ nleft = 0
    /\ IF book = NoBook
       THEN /\ lock' = "free"
            /\ hpc' = "idle"
            /\ UNCHANGED rows
       ELSE /\ BuildRows
            /\ hpc' = "emit"
            /\ UNCHANGED lock
    /\ book0' = NoBook
    /\ nApplied' = 0
    /\ lastOp' = "none"
    /\ UNCHANGED <<book, msg, nleft, hwriter, sink, wclosed, torn, rpc, rres>>
    /\ UNCHANGED nonBookVars

\* one iteration of the loop at lines 171-172: self.parquet_writer is read
\* again for every row
EmitRow ==
    /\ hpc = "emit"
    /\ rows # <<>>
    /\ sink' = Append(sink, [w |-> hwriter, row |-> Head(rows)])
    /\ rows' = Tail(rows)
    /\ UNCHANGED <<book0, book, lock, hpc, msg, nleft, hwriter, wclosed, nApplied,
                   torn, lastOp, rpc, rres>>
    /\ UNCHANGED nonBookVars

\* the loop is over: the handler returns to on_message (leaving the `with`
\* block when the caller is process_price_change_message)
EmitDone ==
    /\ hpc = "emit"
    /\ rows = <<>>
    /\ hpc' = "idle"
    /\ lock' = IF lock = "handler" THEN "free" ELSE lock
    /\ msg' = NoMsg
    /\ sink' = <<>>
    /\ UNCHANGED <<book0, book, nleft, rows, hwriter, wclosed, nApplied, torn,
                   lastOp, rpc, rres>>
    /\ UNCHANGED nonBookVars

\* switch_writer: the whole body runs under the lock
SwitchWriter ==
    /\ lock = "free"
    /\ \E new_writer \in WriterIds \ (wclosed \cup {hwriter}) :
        hwriter' = new_writer
    /\ wclosed' = IF hwriter # 0 THEN wclosed \cup {hwriter} ELSE wclosed
    /\ UNCHANGED <<book0, book, lock, hpc, msg, nleft, rows, sink, nApplied, torn,
                   lastOp, rpc, rres>>
    /\ UNCHANGED nonBookVars

\* A reader of bb / ba that takes the handler's lock around its reads.
ReaderLock ==
    /\ rpc = "idle"
    /\ lock = "free"
    /\ lock' = "reader"
    /\ rpc' = "reading"
    /\ rres' = IF book = NoBook THEN NoRead
               ELSE [bb |-> BestBid(book.bids), ba |-> BestAsk(book.asks)]
    /\ UNCHANGED <<book0, book, hpc, msg, nleft, rows, hwriter, sink, wclosed,
                   nApplied, torn, lastOp>>
    /\ UNCHANGED nonBookVars

ReaderUnlock ==
    /\ rpc = "reading"
    /\ lock' = "free"
    /\ rpc' = "idle"
    /\ rres' = NoRead
    /\ UNCHANGED <<book0, book, hpc, msg, nleft, rows, hwriter, sink, wclosed,
                   nApplied, torn, lastOp>>
    /\ UNCHANGED nonBookVars

BookNext ==
    \/ FullBookIgnored
    \/ FullBookReceive
    \/ FullBookLock
    \/ FullBookAssign
    \/ FullBookEnqueue
    \/ PriceChangeReceive
    \/ PriceChangeLock
    \/ PriceChangeStep
    \/ PriceChangeEnqueue
    \/ EmitRow
    \/ EmitDone
    \/ SwitchWriter
    \/ ReaderLock
    \/ ReaderUnlock

-----------------------------------------------------------------------------
(* ParquetWriter.                                                           *)
(* Writer thread (_writer_loop):                                            *)
(*   wpc = "open"   before _open_writer (line 96)                           *)
(*         "test"   at the loop test of line 98                             *)
(*         "get"    at queue.get(timeout=0.1) (line 100)                    *)
(*         "check"  at lines 105-116                                        *)
(*         "final"  at the final flush (lines 119-122)                      *)
(*         "close"  in the finally block (line 125)                         *)
(*         "done"   the thread has ended                                    *)
(* Producer (enqueue):                                                      *)
(*   ppc = "idle", "put" (line 167), "full" (line 170), "reput" (line 171)  *)
(* Caller of shutdown:                                                      *)
(*   spc = "idle", "joining" (line 184), "returned", "raised" (line 187)    *)

WriterInit ==
    /\ wrunning = TRUE
    /\ queue = <<>>
    /\ wopen = "unopened"
    /\ footers = 0
    /\ committed = <<>>
    /\ buffer = <<>>
    /\ since = 0
    /\ wpc = "open"
    /\ failed = FALSE
    /\ ppc = "idle"
    /\ prow = 0
    /\ nextRow = 1
    /\ enq = <<>>
    /\ evicted = {}
    /\ pres = "none"
    /\ spc = "idle"
    /\ stimeout = FALSE
    /\ shutCalls = 0

\* enqueue without the test of self.running
EnqueueStartUnchecked ==
    /\ ppc = "idle"
    /\ nextRow <= MaxRows
    /\ prow' = nextRow
    /\ nextRow' = nextRow + 1
    /\ ppc' = "put"
    /\ pres' = "none"
    /\ UNCHANGED <<wrunning, queue, wopen, footers, committed, buffer, since,
                   wpc, failed, enq, evicted, spc, stimeout, shutCalls>>
    /\ UNCHANGED nonWriterVars

\* enqueue, lines 162-164: the test of self.running
EnqueueStart ==
    /\ ppc = "idle"
    /\ nextRow <= MaxRows
    /\ prow' = nextRow
    /\ nextRow' = nextRow + 1
    /\ IF wrunning
       THEN ppc' = "put" /\ pres' = "none"
       ELSE ppc' = "idle" /\ pres' = "skipped"
    /\ UNCHANGED <<wrunning, queue, wopen, footers, committed, buffer, since,
                   wpc, failed, enq, evicted, spc, stimeout, shutCalls>>
    /\ UNCHANGED nonWriterVars

\* line 167: put_nowait, which raises queue.Full on a full queue
EnqueuePut ==
    /\ ppc = "put"
    /\ IF Len(queue) < QueueMax
       THEN /\ queue' = Append(queue, prow)
            /\ enq' = Append(enq, prow)
            /\ ppc' = "idle"
            /\ pres' = "put"
       ELSE /\ ppc' = "full"
            /\ UNCHANGED <<queue, enq, pres>>
    /\ UNCHANGED <<wrunning, wopen, footers, committed, buffer, since, wpc,
                   failed, prow, nextRow, evicted, spc, stimeout, shutCalls>>
    /\ UNCHANGED nonWriterVars

\* line 170: get_nowait drops the oldest row; on an empty queue it raises
\* queue.Empty, which lines 172-173 swallow
EnqueueEvict ==
    /\ ppc = "full"
    /\ IF queue # <<>>
       THEN /\ evicted' = evicted \cup {Head(queue)}
            /\ queue' = Tail(queue)
            /\ ppc' = "reput"
            /\ UNCHANGED pres
       ELSE /\ ppc' = "idle"
            /\ pres' = "lost"
            /\ UNCHANGED <<queue, evicted>>
    /\ UNCHANGED <<wrunning, wopen, footers, committed, buffer, since, wpc,
                   failed, prow, nextRow, enq, spc, stimeout, shutCalls>>
    /\ UNCHANGED nonWriterVars

\* line 171: the second put_nowait; a queue.Full here is not caught
EnqueueReput ==
    /\ ppc = "reput"
    /\ IF Len(queue) < QueueMax
       THEN /\ queue' = Append(queue, prow)
            /\ enq' = Append(enq, prow)
            /\ pres' = "evicted_put"
       ELSE /\ pres' = "raised"
            /\ UNCHANGED <<queue, enq>>
    /\ ppc' = "idle"
    /\ UNCHANGED <<wrunning, wopen, footers, committed, buffer, since, wpc,
                   failed, prow, nextRow, evicted, spc, stimeout, shutCalls>>
    /\ UNCHANGED nonWriterVars

\* line 96
WriterOpen ==
    /\ wpc = "open"
    /\ wopen' = "open"
    /\ wpc' = "test"
    /\ UNCHANGED <<wrunning, queue, footers, committed, buffer, since, failed,
                   ppc, prow, nextRow, enq, evicted, pres, spc, stimeout,
                   shutCalls>>
    /\ UNCHANGED nonWriterVars

\* line 98
WriterTest ==
    /\ wpc = "test"
    /\ wpc' = IF wrunning \/ queue # <<>> THEN "get" ELSE "final"
    /\ UNCHANGED <<wrunning, queue, wopen, footers, committed, buffer, since,
                   failed, ppc, prow, nextRow, enq, evicted, pres, spc,
                   stimeout, shutCalls>>
    /\ UNCHANGED nonWriterVars

\* a buffer that receives the dequeued row at its front
TakePrepend(buf, row) == <<row>> \o buf

\* line 101
Take(buf, row) == Append(buf, row)

\* lines 99-103: a row if there is one, queue.Empty after the timeout if not
WriterGet ==
    /\ wpc = "get"
    /\ IF queue # <<>>
       THEN /\ buffer' = Take(buffer, Head(queue))
            /\ queue' = Tail(queue)
       ELSE UNCHANGED <<buffer, queue>>
    /\ wpc' = "check"
    /\ UNCHANGED <<wrunning, wopen, footers, committed, since, failed, ppc,
                   prow, nextRow, enq, evicted, pres, spc, stimeout, shutCalls>>
    /\ UNCHANGED nonWriterVars

\* should_flush without the flush_interval test
ShouldFlushCountOnly == Len(buffer) >= BatchSize

\* lines 107-110
ShouldFlush ==
    \/ Len(buffer) >= BatchSize
    \/ (buffer # <<>> /\ since >= FlushInterval)

\* lines 105-116: the flush either writes the batch (_flush returns) or
\* raises, which ends the loop through the finally block
WriterCheck ==
    /\ wpc = "check"
    /\ \/ /\ ~ShouldFlush
          /\ wpc' = "test"
          /\ UNCHANGED <<committed, buffer, since, failed>>
       \/ /\ ShouldFlush
          /\ committed' = committed \o buffer
          /\ buffer' = <<>>
          /\ since' = 0
          /\ wpc' = "test"
          /\ UNCHANGED failed
       \/ /\ ShouldFlush
          /\ failed' = TRUE
          /\ wpc' = "close"
          /\ UNCHANGED <<committed, buffer, since>>
    /\ UNCHANGED <<wrunning, queue, wopen, footers, ppc, prow, nextRow, enq,
                   evicted, pres, spc, stimeout, shutCalls>>
    /\ UNCHANGED nonWriterVars

\* lines 119-122
WriterFinal ==
    /\ wpc = "final"
    /\ \/ /\ buffer = <<>>
          /\ UNCHANGED <<committed, buffer, failed>>
       \/ /\ buffer # <<>>
          /\ committed' = committed \o buffer
          /\ buffer' = <<>>
          /\ UNCHANGED failed
       \/ /\ buffer # <<>>
          /\ failed' = TRUE
          /\ UNCHANGED <<committed, buffer>>
    /\ wpc' = "close"
    /\ UNCHANGED <<wrunning, queue, wopen, footers, since, ppc, prow, nextRow,
                   enq, evicted, pres, spc, stimeout, shutCalls>>
    /\ UNCHANGED nonWriterVars

\* the close placed after the loop instead of in a finally block: a failed
\* commit ends the thread without closing the file
WriterCloseNoFinally ==
    /\ wpc = "close"
    /\ IF wopen = "open" /\ ~failed
       THEN footers' = footers + 1 /\ wopen' = "closed"
       ELSE UNCHANGED <<footers, wopen>>
    /\ wpc' = "done"
    /\ UNCHANGED <<wrunning, queue, committed, buffer, since, failed, ppc,
                   prow, nextRow, enq, evicted, pres, spc, stimeout, shutCalls>>
    /\ UNCHANGED nonWriterVars

\* lines 124-125 with _close_writer (lines 81-84): closing writes the footer
WriterClose ==
    /\ wpc = "close"
    /\ IF wopen = "open"
       THEN footers' = footers + 1 /\ wopen' = "closed"
       ELSE UNCHANGED <<footers, wopen>>
    /\ wpc' = "done"
    /\ UNCHANGED <<wrunning, queue, committed, buffer, since, failed, ppc,
                   prow, nextRow, enq, evicted, pres, spc, stimeout, shutCalls>>
    /\ UNCHANGED nonWriterVars

\* the monotonic clock advances while the writer thread runs
Tick ==
    /\ wpc \in {"test", "get", "check"}
    /\ since < FlushInterval
    /\ since' = since + 1
    /\ UNCHANGED <<wrunning, queue, wopen, footers, committed, buffer, wpc,
                   failed, ppc, prow, nextRow, enq, evicted, pres, spc,
                   stimeout, shutCalls>>
    /\ UNCHANGED nonWriterVars

\* shutdown, lines 179-184 up to the join; it may be called again. The call
\* without a timeout is the one WebSocketOrderBook.shutdown (ws.py line 132)
\* and switch_writer (orderbook.py line 178) make.
ShutdownBegin(timed) ==
    /\ spc \in {"idle", "returned", "raised"}
    /\ wrunning' = FALSE
    /\ spc' = "joining"
    /\ stimeout' = timed
    /\ shutCalls' = IF shutCalls < 2 THEN shutCalls + 1 ELSE shutCalls
    /\ UNCHANGED <<queue, wopen, footers, committed, buffer, since, wpc,
                   failed, ppc, prow, nextRow, enq, evicted, pres>>

ShutdownCall ==
    /\ \E timed \in BOOLEAN : ShutdownBegin(timed)
    /\ UNCHANGED nonWriterVars

\* a shutdown that closes the file itself once the thread has been joined
ShutdownReturnClosing ==
    /\ spc = "joining"
    /\ wpc = "done"
    /\ spc' = "returned"
    /\ footers' = footers + 1
    /\ UNCHANGED <<wrunning, queue, wopen, committed, buffer, since,
                   wpc, failed, ppc, prow, nextRow, enq, evicted, pres,
                   stimeout, shutCalls>>
    /\ UNCHANGED nonWriterVars

\* lines 184-186: the join has ended with the thread dead
ShutdownReturn ==
    /\ spc = "joining"
    /\ wpc = "done"
    /\ spc' = "returned"
    /\ UNCHANGED <<wrunning, queue, wopen, footers, committed, buffer, since,
                   wpc, failed, ppc, prow, nextRow, enq, evicted, pres,
                   stimeout, shutCalls>>
    /\ UNCHANGED nonWriterVars

\* lines 184-189: the join has timed out with the thread alive
ShutdownTimeout ==
    /\ spc = "joining"
    /\ stimeout
    /\ wpc # "done"
    /\ spc' = "raised"
    /\ UNCHANGED <<wrunning, queue, wopen, footers, committed, buffer, since,
                   wpc, failed, ppc, prow, nextRow, enq, evicted, pres,
                   stimeout, shutCalls>>
    /\ UNCHANGED nonWriterVars

WriterNext ==
    \/ EnqueueStart
    \/ EnqueuePut
    \/ EnqueueEvict
    \/ EnqueueReput
    \/ WriterOpen
    \/ WriterTest
    \/ WriterGet
    \/ WriterCheck
    \/ WriterFinal
    \/ WriterClose
    \/ Tick
    \/ ShutdownCall
    \/ ShutdownReturn
    \/ ShutdownTimeout

-----------------------------------------------------------------------------
(* main (main.py) with WebSocketOrderBook (ws.py) and Event (models.py).    *)
(* One action runs the body of the for loop for one asset. Time is counted  *)
(* in half seconds and passes in the loop's two sleeps: sleep(1) at the end *)
(* of each pass over the assets and sleep(RECONNECT_DELAY) before a         *)
(* reconnect.                                                               *)

ASSETS == <<"Bitcoin", "Ethereum">>

\* time.sleep(1) of line 117
TickLen == 2
\* RECONNECT_DELAY of line 21
ReconnectDelay == 1
\* one second, the resolution of the "%Y%m%d_%H%M%S" stamp of a file name
StampUnit == 2

\* a stamp that carries the day only ("%Y%m%d"), as the folder name does
FileStampDay(t) == t \div (86400 * StampUnit)

\* get_new_parquet_filename: datetime.now() formatted to the second
FileStamp(t) == t \div StampUnit

NoEvent == [none |-> TRUE]

E1 == [event_id |-> 1, start |-> 2, end |-> 6]
E2 == [event_id |-> 2, start |-> 6, end |-> 10]
\* another instrument with E2's window
E3 == [event_id |-> 3, start |-> 6, end |-> 10]

\* what get_window_events can return for an asset
DiscoveryResults == {<<>>, <<E1, E2>>, <<E2>>, <<E3>>}

\* load_tokens_for_condition(event.markets[0])[0]
TokenOf(ev) == ev.event_id

\* the equality a dataclass generates: every field
EventEqAllFields(x, y) == x = y

\* Event.__eq__: (start, end) only; None equals only None
EventEq(x, y) ==
    IF x = NoEvent \/ y = NoEvent
    THEN x = y
    ELSE x.start = y.start /\ x.end = y.end

\* the window test with the end included: start <= t <= end
CurrentEventClosed(events, t) ==
    LET hits == {i \in DOMAIN events : events[i].start <= t /\ t <= events[i].end}
    IN  IF hits = {} THEN NoEvent
        ELSE events[CHOOSE i \in hits : \A j \in hits : i <= j]

\* line 40: the first cached event whose window holds t
CurrentEvent(events, t) ==
    LET hits == {i \in DOMAIN events : events[i].start <= t /\ t < events[i].end}
    IN  IF hits = {} THEN NoEvent
        ELSE events[CHOOSE i \in hits : \A j \in hits : i <= j]

\* WebSocketOrderBook.shutdown on connection c. It sets running to False,
\* closes the socket and then shuts the writer down, which joins the writer
\* thread and so closes the file; if ws.close() raises, the writer's
\* shutdown is never reached. `tried` records that shutdown was called.
ShutdownConn(cs, c, raises) ==
    IF raises
    THEN [cs EXCEPT ![c].running = FALSE, ![c].tried = TRUE]
    ELSE [cs EXCEPT ![c].running = FALSE, ![c].tried = TRUE,
                    ![c].wsclosed = TRUE, ![c].writer = "closed"]

\* WebSocketOrderBook.__init__ with the file name that
\* get_new_parquet_filename gives at time t: a connection with its own open
\* writer
NewConn(a, ev, t) ==
    [asset |-> a, event |-> ev, running |-> TRUE, wsclosed |-> FALSE,
     writer |-> "open", tried |-> FALSE,
     file |-> [asset |-> a, ts |-> FileStamp(t), token |-> TokenOf(ev)]]

OrchInit ==
    /\ clock = 0
    /\ now = 0
    /\ opc = "loop"
    /\ exc = "none"
    /\ ai = 1
    /\ asset_events = [a \in {ASSETS[i] : i \in DOMAIN ASSETS} |-> <<>>]
    /\ last_refresh = [a \in {ASSETS[i] : i \in DOMAIN ASSETS} |-> -1]
    /\ current_events = [a \in {ASSETS[i] : i \in DOMAIN ASSETS} |-> NoEvent]
    /\ wsconnections = [a \in {ASSETS[i] : i \in DOMAIN ASSETS} |-> 0]
    /\ conns = <<>>
    /\ fin = {}

RefreshDue(a) ==
    last_refresh[a] = -1 \/ now - last_refresh[a] >= RefreshInterval

\* an exception that is not a KeyboardInterrupt leaves the while loop: the
\* finally block runs with the exception pending
LoopDies(cause) ==
    /\ opc' = "finally"
    /\ exc' = cause
    /\ fin' = {a \in DOMAIN wsconnections : wsconnections[a] # 0}
    /\ UNCHANGED <<now, ai>>

\* lines 29-34 raise in get_window_events
OrchDiscoveryFails ==
    /\ opc = "loop"
    /\ ai <= Len(ASSETS)
    /\ RefreshDue(ASSETS[ai])
    /\ LoopDies("discovery")
    /\ UNCHANGED <<clock, asset_events, last_refresh, current_events,
                   wsconnections, conns>>
    /\ UNCHANGED nonOrchVars

\* lines 27-114 for asset a, with discovery result d (used when a refresh is
\* due), tokenRaises (load_tokens_for_condition raises) and closeRaises (the
\* connection's shutdown raises)
OrchAssetWith(a, d, tokenRaises, closeRaises) ==
    LET events == IF RefreshDue(a) THEN d ELSE asset_events[a]
        new_event == CurrentEvent(events, now)
        changed == ~EventEq(new_event, current_events[a])
        old == wsconnections[a]
        dead == new_event # NoEvent /\ old # 0 /\ ~conns[old].running
        absent == new_event # NoEvent /\ old = 0
        should_connect == IF changed THEN new_event # NoEvent ELSE dead \/ absent
        cur == IF changed THEN new_event ELSE current_events[a]
        \* line 62: case 2 sleeps before it reconnects
        delay == IF ~changed /\ dead THEN ReconnectDelay ELSE 0
    IN  /\ asset_events' = [asset_events EXCEPT ![a] = events]
        /\ clock' = clock + delay
        /\ last_refresh' = IF RefreshDue(a)
                           THEN [last_refresh EXCEPT ![a] = now]
                           ELSE last_refresh
        /\ current_events' = [current_events EXCEPT ![a] = cur]
        /\ IF changed /\ new_event = NoEvent
           THEN \* lines 50-56: the market ended
                IF old = 0
                THEN /\ UNCHANGED <<wsconnections, conns, opc, exc, fin, now>>
                     /\ ai' = ai + 1
                ELSE /\ conns' = ShutdownConn(conns, old, closeRaises)
                     /\ IF closeRaises
                        THEN UNCHANGED wsconnections /\ LoopDies("teardown")
                        ELSE /\ wsconnections' = [wsconnections EXCEPT ![a] = 0]
                             /\ ai' = ai + 1
                             /\ UNCHANGED <<opc, exc, fin, now>>
           ELSE IF should_connect
           THEN \* lines 70-114
                IF tokenRaises
                THEN UNCHANGED <<wsconnections, conns>> /\ LoopDies("resolution")
                ELSE /\ Len(conns) < MaxConns
                     /\ conns' = Append(IF old = 0 THEN conns
                                        ELSE ShutdownConn(conns, old, closeRaises),
                                        NewConn(a, cur, clock'))
                     /\ wsconnections' = [wsconnections EXCEPT ![a] = Len(conns) + 1]
                     /\ ai' = ai + 1
                     /\ UNCHANGED <<opc, exc, fin, now>>
           ELSE /\ UNCHANGED <<wsconnections, conns, opc, exc, fin, now>>
                /\ ai' = ai + 1

OrchAsset ==
    /\ opc = "loop"
    /\ ai <= Len(ASSETS)
    /\ \E d \in DiscoveryResults, tokenRaises \in BOOLEAN, closeRaises \in BOOLEAN :
          OrchAssetWith(ASSETS[ai], d, tokenRaises, closeRaises)
    /\ UNCHANGED nonOrchVars

\* line 117, then line 25 of the next pass
OrchSleep ==
    /\ opc = "loop"
    /\ ai > Len(ASSETS)
    /\ clock + TickLen <= MaxTime
    /\ clock' = clock + TickLen
    /\ now' = clock'
    /\ ai' = 1
    /\ UNCHANGED <<opc, exc, asset_events, last_refresh, current_events,
                   wsconnections, conns, fin>>
    /\ UNCHANGED nonOrchVars

\* lines 119-120
KeyboardInterrupt ==
    /\ opc = "loop"
    /\ opc' = "finally"
    /\ fin' = {a \in DOMAIN wsconnections : wsconnections[a] # 0}
    /\ UNCHANGED <<clock, now, exc, ai, asset_events, last_refresh,
                   current_events, wsconnections, conns>>
    /\ UNCHANGED nonOrchVars

\* the finally block's loop without its try / except: an error in one
\* shutdown ends the loop
FinalShutdownAborting ==
    /\ opc = "finally"
    /\ \E a \in fin, closeRaises \in BOOLEAN :
        /\ conns' = ShutdownConn(conns, wsconnections[a], closeRaises)
        /\ fin' = IF closeRaises THEN {} ELSE fin \ {a}
    /\ UNCHANGED <<clock, now, opc, exc, ai, asset_events, last_refresh,
                   current_events, wsconnections>>
    /\ UNCHANGED nonOrchVars

\* lines 124-129: one iteration of the finally block's loop
FinalShutdown ==
    /\ opc = "finally"
    /\ \E a \in fin, closeRaises \in BOOLEAN :
        /\ conns' = ShutdownConn(conns, wsconnections[a], closeRaises)
        /\ fin' = fin \ {a}
    /\ UNCHANGED <<clock, now, opc, exc, ai, asset_events, last_refresh,
                   current_events, wsconnections>>
    /\ UNCHANGED nonOrchVars

\* line 131; main then returns, or the pending exception goes on to end the
\* process
FinalDone ==
    /\ opc = "finally"
    /\ fin = {}
    /\ opc' = IF exc = "none" THEN "done" ELSE "raised"
    /\ UNCHANGED <<clock, now, exc, ai, asset_events, last_refresh,
                   current_events, wsconnections, conns, fin>>
    /\ UNCHANGED nonOrchVars

\* on_close (ws.py lines 64-66): the connection is lost
ConnectionLost ==
    /\ opc = "loop"
    /\ \E c \in DOMAIN conns :
        /\ conns[c].running
        /\ conns' = [conns EXCEPT ![c].running = FALSE]
    /\ UNCHANGED <<clock, now, opc, exc, ai, asset_events, last_refresh,
                   current_events, wsconnections, fin>>
    /\ UNCHANGED nonOrchVars

OrchNext ==
    \/ OrchDiscoveryFails
    \/ OrchAsset
    \/ OrchSleep
    \/ KeyboardInterrupt
    \/ FinalShutdown
    \/ FinalDone
    \/ ConnectionLost

-----------------------------------------------------------------------------
(* ParquetWriter instances and the files they are bound to. An instance is  *)
(* [filename, writer, opens]: writer is self._writer ("none" is None),      *)
(* opens counts the _open_writer calls made on the instance.                *)

Paths == {"f1", "f2"}

FilesInit ==
    /\ pws = <<>>
    /\ openres = "none"

\* ParquetWriter(filename), lines 30-36: any path is accepted
NewParquetWriter ==
    /\ Len(pws) < MaxInstances
    /\ \E f \in Paths :
          pws' = Append(pws, [filename |-> f, writer |-> "none", opens |-> 0])
    /\ UNCHANGED openres
    /\ UNCHANGED nonFileVars

\* _open_writer, lines 69-79: it raises when this instance is open, and
\* otherwise pq.ParquetWriter creates the file, whatever other instance has
\* it open
OpenWriter(i) ==
    /\ pws[i].opens < 2
    /\ IF pws[i].writer # "none"
       THEN /\ openres' = "raised"
            /\ pws' = [pws EXCEPT ![i].opens = @ + 1]
       ELSE /\ openres' = "opened"
            /\ pws' = [pws EXCEPT ![i].writer = "open", ![i].opens = @ + 1]
    /\ UNCHANGED nonFileVars

\* _close_writer, lines 81-84
CloseWriter(i) ==
    /\ pws[i].writer = "open"
    /\ pws' = [pws EXCEPT ![i].writer = "none"]
    /\ UNCHANGED openres
    /\ UNCHANGED nonFileVars

FilesOpen == \E i \in DOMAIN pws : OpenWriter(i)

FilesClose == \E i \in DOMAIN pws : CloseWriter(i)

FilesNext ==
    \/ NewParquetWriter
    \/ FilesOpen
    \/ FilesClose

-----------------------------------------------------------------------------
(* WebSocketOrderBook.shutdown (ws.py lines 121-134) on the connection that *)
(* owns the writer:                                                         *)
(*   cpc = "idle"      no call is under way                                 *)
(*         "close"     after self.running = False, before self.ws.close()   *)
(*         "delegate"  ws.close() has returned, before line 132             *)
(*         "join"      inside self.parquet_writer.shutdown()                *)
(* ws.close() is a call into the websocket library: it returns or raises.   *)

NoSnap == [none |-> TRUE]

ConnInit ==
    /\ crunning = TRUE
    /\ cpc = "idle"
    /\ sockclosed = FALSE
    /\ ccalls = 0
    /\ cres = "none"
    /\ fileAt = NoSnap

\* line 124
ConnShutdownStart ==
    /\ cpc = "idle"
    /\ ccalls < MaxShutdowns
    /\ crunning' = FALSE
    /\ cpc' = "close"
    /\ ccalls' = ccalls + 1
    /\ cres' = "none"
    /\ UNCHANGED <<sockclosed, fileAt>>
    /\ UNCHANGED nonConnVars

\* lines 127-128
ConnWsClose ==
    /\ cpc = "close"
    /\ \/ /\ sockclosed' = TRUE
          /\ cpc' = "delegate"
          /\ UNCHANGED cres
       \/ /\ cpc' = "idle"
          /\ cres' = "raised"
          /\ UNCHANGED sockclosed
    /\ UNCHANGED <<crunning, ccalls, fileAt>>
    /\ UNCHANGED nonConnVars

\* lines 131-132: parquet_writer.shutdown() is called without a timeout
ConnDelegate ==
    /\ cpc = "delegate"
    /\ ShutdownBegin(FALSE)
    /\ cpc' = "join"
    /\ UNCHANGED <<crunning, sockclosed, ccalls, cres, fileAt>>
    /\ UNCHANGED <<bookVars, orchVars, fileVars, feedVars>>

\* line 134: the writer's shutdown has returned, and so does the call
ConnReturn ==
    /\ cpc = "join"
    /\ spc = "returned"
    /\ cpc' = "idle"
    /\ cres' = "returned"
    /\ fileAt' = IF fileAt = NoSnap
                 THEN [committed |-> committed, footers |-> footers,
                       wopen |-> wopen]
                 ELSE fileAt
    /\ UNCHANGED <<crunning, sockclosed, ccalls>>
    /\ UNCHANGED nonConnVars

\* the writer with the connection as the only caller of its shutdown
ConnNext ==
    \/ EnqueueStart
    \/ EnqueuePut
    \/ EnqueueEvict
    \/ EnqueueReput
    \/ WriterOpen
    \/ WriterTest
    \/ WriterGet
    \/ WriterCheck
    \/ WriterFinal
    \/ WriterClose
    \/ Tick
    \/ ShutdownReturn
    \/ ConnShutdownStart
    \/ ConnWsClose
    \/ ConnDelegate
    \/ ConnReturn

-----------------------------------------------------------------------------
(* WebSocketOrderBook: the thread inside run and the callbacks that the     *)
(* websocket library invokes on it (ws.py lines 56-96, 117-119).            *)
(*   lpc = "run"      inside self.ws.run_forever(), receiving               *)
(*         "errored"  on_error has returned; the library goes on            *)
(*         "ended"    on_close has returned and so has run_forever          *)
(*   pingpc = "off"   the keepalive thread is not started yet               *)
(*            "on"    inside the loop of ping                               *)
(*            "ended" the loop has ended                                    *)
(* When and in which order the callbacks come is the library's choice: an   *)
(* error is reported through on_error, a closed connection through          *)
(* on_close, and after on_error the library either tears the connection     *)
(* down (on_close) or goes on receiving.                                    *)

FeedInit ==
    /\ lpc = "run"
    /\ pingpc = "off"
    /\ cerr = "none"

\* lines 68-86: the subscription is sent and the keepalive thread started
OnOpen ==
    /\ lpc = "run"
    /\ pingpc = "off"
    /\ pingpc' = "on"
    /\ UNCHANGED <<lpc, cerr>>
    /\ UNCHANGED connVars
    /\ UNCHANGED nonFeedVars

\* lines 88-96, one turn of the loop: the loop ends when self.running is
\* false (line 90) or when ws.send raises (lines 94-96), which is printed
PingWith(sendRaises) ==
    /\ pingpc = "on"
    /\ IF ~crunning
       THEN /\ pingpc' = "ended"
            /\ UNCHANGED cerr
       ELSE /\ sendRaises
            /\ pingpc' = "ended"
            /\ cerr' = "ping"
    /\ UNCHANGED lpc
    /\ UNCHANGED connVars
    /\ UNCHANGED nonFeedVars

Ping == \E sendRaises \in BOOLEAN : PingWith(sendRaises)

\* lines 61-62: the error is printed
OnError ==
    /\ lpc = "run"
    /\ lpc' = "errored"
    /\ cerr' = "on_error"
    /\ UNCHANGED pingpc
    /\ UNCHANGED connVars
    /\ UNCHANGED nonFeedVars

\* lines 64-66, and the return of run_forever (line 119)
OnClose ==
    /\ lpc \in {"run", "errored"}
    /\ lpc' = "ended"
    /\ crunning' = FALSE
    /\ UNCHANGED <<pingpc, cerr>>
    /\ UNCHANGED <<cpc, sockclosed, ccalls, cres, fileAt>>
    /\ UNCHANGED nonFeedVars

\* line 119: run_forever goes on receiving after an error it has reported
RunForeverResumes ==
    /\ lpc = "errored"
    /\ lpc' = "run"
    /\ UNCHANGED <<pingpc, cerr>>
    /\ UNCHANGED connVars
    /\ UNCHANGED nonFeedVars

\* the connection with its callbacks, its keepalive and its shutdown
FeedNext ==
    \/ OnOpen
    \/ Ping
    \/ OnError
    \/ OnClose
    \/ RunForeverResumes
    \/ ConnNext

-----------------------------------------------------------------------------
Init == BookInit /\ WriterInit /\ OrchInit /\ FilesInit /\ ConnInit /\ FeedInit

Next == BookNext \/ WriterNext \/ OrchNext \/ FilesNext \/ ConnNext \/ FeedNext

Spec == Init /\ [][Next]_vars

SpecBook == Init /\ [][BookNext]_vars

SpecWriter == Init /\ [][WriterNext]_vars

SpecOrch == Init /\ [][OrchNext]_vars

SpecFiles == Init /\ [][FilesNext]_vars

SpecConn == Init /\ [][ConnNext]_vars

SpecFeed == Init /\ [][FeedNext]_vars

\* main with its loop running: the for loop and the sleep always go on
\* (get_window_events, load_tokens_for_condition and shutdown return or
\* raise)
SpecOrchLive == SpecOrch /\ WF_vars(OrchAsset) /\ WF_vars(OrchSleep)

\* The writer with its threads scheduled: the caller of shutdown and the
\* writer thread keep running, except that the thread may stay inside a
\* commit (_flush's write_table is blocking file I/O) for any length of time.
SpecWriterLive ==
    /\ SpecWriter
    /\ WF_vars(ShutdownReturn)
    /\ WF_vars(ShutdownTimeout)
    /\ WF_vars(WriterOpen)
    /\ WF_vars(WriterTest)
    /\ WF_vars(WriterGet)
    /\ WF_vars(WriterCheck /\ ~ShouldFlush)
    /\ WF_vars(WriterFinal /\ buffer = <<>>)
    /\ WF_vars(WriterClose)

-----------------------------------------------------------------------------
(* Properties of the order book *)

UniqueBook(b) == UniqueSide(b.bids) /\ UniqueSide(b.asks)

OtherSideOf(b, c) == IF Lower(c.side) = "buy" THEN b.asks ELSE b.bids

\* s with its k-th element taken out
Without(s, k) == SubSeq(s, 1, k - 1) \o SubSeq(s, k + 1, Len(s))

\* C4: starting from sides with unique prices, every application of a price
\* change leaves each side with at most one level per (numeric) price; a
\* non-zero size for a price already there overwrites that level's size in
\* place (same position, same price text, every other level untouched), and
\* for a new price appends exactly one level.
C4_UniquePrices ==
    [][(hpc = "pc_loop" /\ book # NoBook /\ UniqueBook(book)) =>
         /\ UniqueBook(book')
         /\ \A c \in Changes :
              (/\ c.asset_id = TOKEN
               /\ Lower(c.side) \in {"buy", "sell"}
               /\ IsNumeric(c.price)
               /\ IsNumeric(c.size)
               /\ FloatOf(c.size) # 0
               /\ PriceChangeStepWith(c)) =>
                 LET old == SideOf(book, c)
                     new == SideOf(book', c)
                     p == FloatOf(c.price)
                 IN  /\ OtherSideOf(book', c) = OtherSideOf(book, c)
                     /\ IF HasPrice(old, p)
                        THEN /\ Len(new) = Len(old)
                             /\ \A i \in DOMAIN old :
                                  /\ new[i].price = old[i].price
                                  /\ FloatOf(old[i].price) = p
                                        => FloatOf(new[i].size) = FloatOf(c.size)
                                  /\ FloatOf(old[i].price) # p => new[i] = old[i]
                        ELSE /\ Len(new) = Len(old) + 1
                             /\ SubSeq(new, 1, Len(old)) = old
                             /\ FloatOf(new[Len(new)].price) = p
                             /\ FloatOf(new[Len(new)].size) = FloatOf(c.size)]_vars

\* C4 witness: a non-zero change for a price already on the bid side (sent
\* as "0.5", stored as "0.50") has overwritten that level in place, beside
\* a second level.
C4_Witness ==
    /\ lastOp = "overwrite"
    /\ book # NoBook
    /\ UniqueBook(book)
    /\ Len(book.bids) = 2
    /\ book.bids[1] = [price |-> "0.50", size |-> "9.0"]
    /\ book.bids[2] = [price |-> "0.6", size |-> "7"]

\* C5: the assignment made for a full snapshot of the subscribed key leaves
\* both sides equal to exactly the snapshot's levels, whatever the book was
\* before; a full snapshot for another key leaves the book unchanged, builds
\* no rows and enqueues none.
C5_SnapshotReplaces ==
    [][/\ (hpc = "fb_locked" /\ hpc' = "fb_unlocked") =>
             (book'.bids = msg'.bids /\ book'.asks = msg'.asks)
       /\ FullBookIgnored =>
             (book' = book /\ rows' = rows /\ sink' = <<>> /\ hpc' = "idle")]_vars

\* C5 witness: a snapshot with one bid and no ask has just been assigned.
C5_Witness ==
    /\ hpc = "fb_unlocked"
    /\ msg.kind = "book"
    /\ book = [bids |-> <<[price |-> "0.6", size |-> "7"]>>, asks |-> <<>>]
    /\ book.bids = msg.bids
    /\ torn = FALSE

\* C6: a change with size 0 for the subscribed key and a buy / sell side, on
\* an existing book, raises nothing; if the price is on the named side its
\* level is taken out and every other level and the other side stay as they
\* were; if the price is not there the book is unchanged.
C6_Removal ==
    [][(hpc = "pc_loop" /\ book # NoBook) => \A c \in Changes :
         (/\ c.asset_id = TOKEN
          /\ Lower(c.side) \in {"buy", "sell"}
          /\ IsNumeric(c.price)
          /\ IsNumeric(c.size)
          /\ FloatOf(c.size) = 0
          /\ PriceChangeStepWith(c)) =>
            LET old == SideOf(book, c)
                new == SideOf(book', c)
                p == FloatOf(c.price)
            IN  /\ hpc' = "pc_loop"
                /\ lock' = "handler"
                /\ OtherSideOf(book', c) = OtherSideOf(book, c)
                /\ ~HasPrice(new, p)
                /\ ~HasPrice(old, p) => book' = book
                /\ (HasPrice(old, p) /\ UniqueSide(old)) =>
                      new = Without(old, FirstAt(old, p))]_vars

\* C6 witness (Scenario A): the bid side's only level has just been removed
\* by a size-0 change and the ask side still holds its level.
C6_Witness ==
    /\ lastOp = "remove"
    /\ book # NoBook
    /\ book.bids = <<>>
    /\ book.asks = <<[price |-> "0.6", size |-> "7"]>>

\* C9: between a message's mutation of the book and the end of the emission
\* of its rows the processing thread holds the lock (mutation and emission
\* are one critical section), for snapshots and for price changes.
C9_EmissionInCriticalSection ==
    hpc \in {"fb_unlocked", "emit"} => lock = "handler"

\* the book holds only part of a price_change message
PartlyApplied == torn \/ (hpc = "pc_loop" /\ nApplied > 0 /\ nleft > 0)

\* C10: a reader of best bid / best ask never sees a book to which only part
\* of a message has been applied.
C10_NoPartialRead ==
    rpc = "reading" => ~PartlyApplied

\* C11: a message that process_message rejects (its exception is caught at
\* line 47) is discarded: it leaves nothing of itself in the book, and the
\* lock is free once the handler is back in on_message.
C11_MalformedDiscarded ==
    /\ ~torn
    /\ hpc = "idle" => lock # "handler"

\* C22: switch_writer is atomic with respect to message processing: the rows
\* that one message produces are all enqueued to the same writer, whatever
\* the interleaving of switch_writer with snapshots and price changes.
C22_HotSwapAtomic ==
    \A i, j \in DOMAIN sink : sink[i].w = sink[j].w

\* C26: a price_change message is applied all or nothing: when the message
\* is discarded at one of its changes (missing side, non-numeric price or
\* size), both sides of the book are as they were before the message, and
\* no row is built or enqueued for it.
C26_AllOrNothing ==
    [][(hpc = "pc_loop" /\ nleft > 0 /\ hpc' = "idle") =>
          (book' = book0 /\ rows' = rows /\ sink' = sink)]_vars

PositiveSizes(side) == \A i \in DOMAIN side : FloatOf(side[i].size) > 0

\* C27: every level on either side of the book has a strictly positive size,
\* whether it came with a snapshot or with a price change, and so has every
\* row built from the book and every row enqueued.
C27_PositiveSizes ==
    /\ book # NoBook => (PositiveSizes(book.bids) /\ PositiveSizes(book.asks))
    /\ \A i \in DOMAIN rows : rows[i].size > 0
    /\ \A i \in DOMAIN sink : sink[i].row.size > 0

\* C28: on every book a reader can find, bb gives the numerically greatest
\* price of the bid side and ba the numerically smallest price of the ask
\* side, and on an empty side the query does not raise.
C28_BestPrices ==
    (rpc = "reading" /\ book # NoBook) =>
        /\ rres.bb # ValueError
        /\ rres.ba # ValueError
        /\ \A i \in DOMAIN book.bids : FloatOf(book.bids[i].price) <= FloatOf(rres.bb)
        /\ \A i \in DOMAIN book.asks : FloatOf(rres.ba) <= FloatOf(book.asks[i].price)

-----------------------------------------------------------------------------
(* Properties of the writer *)

\* the rows put into the queue and not dropped by the overflow policy
KeptRows == LET Kept(r) == r \notin evicted IN SelectSeq(enq, Kept)

Increasing(s) == \A i, j \in DOMAIN s : i < j => s[i] < s[j]

\* C2: when shutdown has returned and no commit has failed, every row that
\* was put into the queue and not evicted is in the file, and neither the
\* queue nor the batch holds a row.
C2_NoLossOnShutdown ==
    (spc = "returned" /\ ~failed) =>
        (queue = <<>> /\ buffer = <<>> /\ committed = KeptRows)

C7_CommitOrder ==
    /\ committed \o buffer \o queue = KeptRows
    /\ Increasing(enq)
    /\ Increasing(committed)
    /\ evicted = {} => committed = SubSeq(enq, 1, Len(committed))

\* C7 witness: the oldest row was evicted and the two surviving rows are in
\* the file in the order they were enqueued.
C7_Witness ==
    /\ evicted = {1}
    /\ enq = <<1, 2, 3>>
    /\ committed = <<2, 3>>

\* C8: an enqueue call on a running writer ends with the new row in the
\* queue (after at most one eviction of the oldest row) and raises nothing,
\* whatever the writer thread dequeues meanwhile.
C8_NewRowNeverLost ==
    pres \notin {"lost", "raised"}

\* C12: a commit failure is surfaced to the owner: once a commit has failed,
\* no shutdown call returns normally while rows that the writer accepted are
\* left in the queue, never to be written.
C12_CommitFailureSurfaced ==
    failed => (spc # "returned" \/ queue = <<>>)

\* C13: shutdown returns normally only with the writer thread ended and the
\* file closed, and every shutdown call comes to an end: it returns, or it
\* raises when its timeout has elapsed with the thread still alive.
C13_ShutdownEscapes ==
    /\ [](spc = "returned" => (wpc = "done" /\ wopen = "closed"))
    /\ (spc = "joining") ~> (spc \in {"returned", "raised"})

\* C14: no two ParquetWriter instances have the same file open at the same
\* time: opening a writer on a file that an open writer is bound to fails.
C14_OneOpenWriterPerFile ==
    \A i, j \in DOMAIN pws :
        (i # j /\ pws[i].writer = "open" /\ pws[j].writer = "open")
            => pws[i].filename # pws[j].filename

-----------------------------------------------------------------------------
(* Properties of the session loop *)

\* the connections of asset a whose writer has not been shut down
LiveBindings(a) ==
    {c \in DOMAIN conns : conns[c].asset = a /\ conns[c].writer = "open"}

\* C1: at every moment every asset has at most one connection whose writer
\* has not finished shutting down.
C1_OneLiveBinding ==
    \A a \in DOMAIN wsconnections : Cardinality(LiveBindings(a)) <= 1

\* the connections made for asset a
ConnsOf(a) == {c \in DOMAIN conns : conns[c].asset = a}

DeadBinding(a) ==
    /\ opc = "loop"
    /\ wsconnections[a] # 0
    /\ ~conns[wsconnections[a]].running
    /\ CurrentEvent(asset_events[a], now) # NoEvent

\* the dead binding of a is gone, or the loop or the model's horizon has ended
DeadBindingGone(a) ==
    \/ opc # "loop"
    \/ wsconnections[a] = 0
    \/ conns[wsconnections[a]].running
    \/ Len(conns) = MaxConns
    \/ clock + TickLen > MaxTime

\* a step that replaces the dead connection of asset a by a new one leaves
\* the old connection's socket and writer closed and the new connection
\* running
ReplacedCleanly(a) ==
    (/\ wsconnections[a] # 0
     /\ ~conns[wsconnections[a]].running
     /\ wsconnections'[a] \notin {0, wsconnections[a]})
        => /\ conns'[wsconnections[a]].wsclosed
           /\ conns'[wsconnections[a]].writer = "closed"
           /\ conns'[wsconnections'[a]].running

\* C16: an asset bound to a dead connection while its window is valid gets,
\* on a later tick, a fresh running connection, and the step that rebinds it
\* has shut down the stale connection and its writer.
C16_DeadIsReplaced ==
    /\ \A a \in {"Bitcoin", "Ethereum"} : DeadBinding(a) ~> DeadBindingGone(a)
    /\ [][\A a \in {"Bitcoin", "Ethereum"} : ReplacedCleanly(a)]_vars

\* the cached windows of asset a, after the step, that hold the tick's time
ValidAfter(a) ==
    {i \in DOMAIN asset_events'[a] :
        asset_events'[a][i].start <= now /\ now < asset_events'[a][i].end}

\* what the loop body leaves for asset a: a binding exactly when a cached
\* window holds `now`, bound to that window (windows are compared by start
\* and end, as Event.__eq__ does), and a binding that has lost its window
\* shut down
TickOutcome(a) ==
    /\ wsconnections'[a] # 0 <=> ValidAfter(a) # {}
    /\ wsconnections'[a] # 0 =>
          \E i \in ValidAfter(a) :
              EventEq(conns'[wsconnections'[a]].event, asset_events'[a][i])
    /\ (wsconnections[a] # 0 /\ ValidAfter(a) = {}) =>
          /\ conns'[wsconnections[a]].wsclosed
          /\ conns'[wsconnections[a]].writer = "closed"

\* C17: after the loop body has run for an asset without a discovery,
\* resolution or teardown error, the asset is bound exactly when a cached
\* window satisfies start <= now < end, it is bound to that window, and a
\* binding whose window has ended without successor has been shut down and
\* removed.
C17_BoundIffWindow ==
    [][\A d \in DiscoveryResults :
          (opc = "loop" /\ ai <= Len(ASSETS)
             /\ OrchAssetWith(ASSETS[ai], d, FALSE, FALSE))
            => TickOutcome(ASSETS[ai])]_vars

\* C17 witness: the loop body has just run for Bitcoin at the tick at which
\* the second window ended; the window is still in the cache, which was not
\* refreshed at this tick, and Bitcoin's connection to it has been shut down
\* and removed.
C17_Witness ==
    /\ opc = "loop"
    /\ now = E2.end
    /\ ai = 2
    /\ last_refresh["Bitcoin"] < now
    /\ \E i \in DOMAIN asset_events["Bitcoin"] :
          asset_events["Bitcoin"][i].end = now
    /\ wsconnections["Bitcoin"] = 0
    /\ \E c \in DOMAIN conns :
          /\ conns[c].asset = "Bitcoin"
          /\ conns[c].event.end = now
          /\ conns[c].tried
          /\ conns[c].writer = "closed"

\* C18: a failure of get_window_events or of load_tokens_for_condition never
\* ends the loop: no such exception leaves the while loop, and so none makes
\* the finally block shut the other assets' sessions down.
C18_FailureDoesNotEndLoop ==
    exc \notin {"discovery", "resolution"}

\* C19: when main reports "All shutdowns complete" (line 131), shutdown has
\* been called on the connection of every asset that was bound when the loop
\* ended, whether or not another connection's shutdown raised.
C19_AllShutdownsAttempted ==
    opc \in {"done", "raised"} =>
        \A a \in DOMAIN wsconnections :
            wsconnections[a] # 0 => conns[wsconnections[a]].tried

\* C19 witness: after a KeyboardInterrupt with both assets bound, main has
\* reported completion; the shutdown of Bitcoin's connection raised (its
\* writer was not reached) and Ethereum's connection was shut down all the
\* same.
C19_Witness ==
    /\ opc = "done"
    /\ wsconnections["Bitcoin"] # 0
    /\ wsconnections["Ethereum"] # 0
    /\ conns[wsconnections["Bitcoin"]].tried
    /\ conns[wsconnections["Bitcoin"]].writer = "open"
    /\ conns[wsconnections["Ethereum"]].tried
    /\ conns[wsconnections["Ethereum"]].writer = "closed"

-----------------------------------------------------------------------------
(* Properties of the connection's shutdown *)

-----------------------------------------------------------------------------
(* Properties of the writer loop *)

\* C23: the batch never holds more than batch_size rows, and at its check the
\* loop commits exactly when the batch has reached batch_size or is non-empty
\* with flush_interval elapsed since the last commit: a commit that is due
\* appends the whole batch to the file, empties the batch and resets the
\* interval clock (unless the write fails), and when none is due the file,
\* the batch and the clock are left as they are.
C23_CommitRule ==
    /\ [](Len(buffer) <= BatchSize)
    /\ [][(wpc = "check" /\ wpc' # "check") =>
            LET due == \/ Len(buffer) >= BatchSize
                       \/ (buffer # <<>> /\ since >= FlushInterval)
            IN  /\ due => \/ failed'
                          \/ /\ committed' = committed \o buffer
                             /\ buffer' = <<>>
                             /\ since' = 0
                /\ ~due => UNCHANGED <<committed, buffer, since>>]_vars

\* C23 witness (Scenario B): the rows enqueued were fewer than batch_size, no
\* shutdown was asked for, and the loop has just committed exactly those
\* rows because the interval had elapsed.
C23_Witness ==
    /\ wpc = "test"
    /\ wrunning
    /\ shutCalls = 0
    /\ ~failed
    /\ since = 0
    /\ enq # <<>>
    /\ Len(enq) < BatchSize
    /\ committed = enq
    /\ queue = <<>>
    /\ buffer = <<>>

\* C24: once the file has been closed nothing more happens to it (it stays
\* closed, with the rows and the one footer it has); after a failed commit no
\* row is ever written again; and an enqueue made after shutdown has returned
\* returns at once, leaving the queue and the file as they are.
C24_ClosedFileUntouched ==
    [][/\ wopen = "closed" =>
             (wopen' = "closed" /\ committed' = committed /\ footers' = footers)
       /\ failed => (failed' /\ committed' = committed)
       /\ (spc = "returned" /\ prow' # prow) =>
             /\ ppc' = "idle"
             /\ pres' = "skipped"
             /\ queue' = queue
             /\ committed' = committed
             /\ footers' = footers
             /\ wopen' = wopen]_vars

\* C24 witness: shutdown has returned with rows 1 and 2 in the closed file,
\* and the enqueue of row 3 has returned without putting it.
C24_Witness ==
    /\ spc = "returned"
    /\ wopen = "closed"
    /\ footers = 1
    /\ committed = <<1, 2>>
    /\ prow = 3
    /\ ppc = "idle"
    /\ pres = "skipped"
    /\ queue = <<>>

-----------------------------------------------------------------------------
(* Properties of change detection *)

\* C25: when a refresh is due for an asset whose connection is live, and the
\* current window of the discovery result has the start and the end of the
\* window the asset is bound to, the pass leaves the asset's connection, its
\* writer and its file untouched (no connection is shut down, none is
\* created, the binding is the same), whatever the other fields of the
\* returned window are.
C25_SameWindowUntouched ==
    [][\A d \in DiscoveryResults, tokenRaises \in BOOLEAN, closeRaises \in BOOLEAN :
         (/\ opc = "loop"
          /\ ai <= Len(ASSETS)
          /\ RefreshDue(ASSETS[ai])
          /\ wsconnections[ASSETS[ai]] # 0
          /\ conns[wsconnections[ASSETS[ai]]].running
          /\ current_events[ASSETS[ai]] # NoEvent
          /\ CurrentEvent(d, now) # NoEvent
          /\ CurrentEvent(d, now).start = current_events[ASSETS[ai]].start
          /\ CurrentEvent(d, now).end = current_events[ASSETS[ai]].end
          /\ OrchAssetWith(ASSETS[ai], d, tokenRaises, closeRaises))
            => /\ UNCHANGED <<wsconnections, conns, current_events>>
               /\ opc' = "loop"]_vars

\* C25 witness: Bitcoin is bound to E2 by a live connection, and the refresh
\* of this pass has returned E3, another instrument with E2's window; the
\* connection made for E2 is still the only one.
C25_Witness ==
    /\ opc = "loop"
    /\ ai = 2
    /\ last_refresh["Bitcoin"] = now
    /\ asset_events["Bitcoin"] = <<E3>>
    /\ current_events["Bitcoin"] = E2
    /\ wsconnections["Bitcoin"] = 1
    /\ Len(conns) = 1
    /\ conns[1].event = E2
    /\ conns[1].running
    /\ ~conns[1].tried
    /\ conns[1].writer = "open"

-----------------------------------------------------------------------------
(* Properties of the connection's callbacks *)

\* C21: the liveness flag is false once the connection is closed and once a
\* connection-level error has been handled (the handler that logged it has
\* returned and the library is not about to call on_close).
C21_LivenessFlag ==
    /\ lpc = "ended" => ~crunning
    /\ (cerr # "none" /\ lpc # "errored") => ~crunning

====
